---- MODULE Spec2Model ----
(***************************************************************************)
(* A model of webpie/WPApp.py: the permission gate (webmethod), the        *)
(* response coercion (makeResponse), the handler tree descent              *)
(* (WPHandler.step_down, WPApp.find_web_method) and the request pipeline   *)
(* of the application coordinator (WPApp.__call__, WPApp.wsgi_call).       *)
(***************************************************************************)
EXTENDS Integers, Sequences, FiniteSets, TLC

VARIABLES gate, rs, mr, app, th, td, jg, pq, stp, lk

vars == <<gate, rs, mr, app, th, td, jg, pq, stp, lk>>

\* Python's None.
None == "None"

(***************************************************************************)
(* Bounds of the model.                                                    *)
(***************************************************************************)
\* longest list of roles a role lookup returns
MaxRoles == 2
\* most segments in a request path
MaxSegs == 3
\* most elements of a tuple given to makeResponse
MaxParts == 3
\* threads on which the transport calls the application
NumThreads == 2
\* requests handed to one thread, one after the other
MaxRequests == 2
\* calls of setJinjaGlobals
MaxMutations == 2
\* most characters of a query string
MaxQuery == 5
\* deepest recursion of _destroy the model follows
MaxDepth == 4
\* scopes that hold the lock a thread opens: calls of synchronized methods
\* and with blocks (with app:)
MaxSyncCalls == 2
\* scopes that hold the lock (synchronized methods, with blocks) a thread is
\* in at a time
MaxNesting == 2

\* all sequences over S of length at most n
RECURSIVE SeqUpTo(_, _)
SeqUpTo(S, n) ==
    IF n = 0 THEN {<<>>}
    ELSE LET shorter == SeqUpTo(S, n - 1)
         IN shorter \cup {Append(s, x) : s \in {t \in shorter : Len(t) = n - 1}, x \in S}

(***************************************************************************)
(* Permission gate: webmethod(permissions) -> decorator -> decorated       *)
(***************************************************************************)
RoleNames == {"admin", "user", "guest"}

\* what handler._roles(request, relpath) does: it raises, or returns one role
\* name as a string, or returns a list of role names
RoleLookups ==
    {[kind |-> "raise", val |-> <<>>]}
    \cup {[kind |-> "str", val |-> <<r>>] : r \in RoleNames}
    \cup {[kind |-> "list", val |-> s] : s \in SeqUpTo(RoleNames, MaxRoles)}

\* the declared requirement: permissions=None (given is FALSE), or a set of
\* role names
NoPermissions == [given |-> FALSE, roles |-> {}]
Permissions == {NoPermissions} \cup {[given |-> TRUE, roles |-> R] : R \in SUBSET RoleNames}

\* a gate that looks at the first fetched role only
decorated_first_role(permissions, lookup) ==
    IF ~permissions.given
    THEN [outcome |-> "invoked", status |-> 200, lookups |-> 0, invoked |-> 1]
    ELSE IF lookup.kind = "raise"
    THEN [outcome |-> "HTTPForbidden", status |-> 403, lookups |-> 1, invoked |-> 0]
    ELSE IF Len(lookup.val) > 0 /\ lookup.val[1] \in permissions.roles
         THEN [outcome |-> "invoked", status |-> 200, lookups |-> 1, invoked |-> 1]
         ELSE [outcome |-> "HTTPForbidden", status |-> 403, lookups |-> 1, invoked |-> 0]

\* a gate that lets the request through when the role lookup raises
decorated_fail_open(permissions, lookup) ==
    IF ~permissions.given
    THEN [outcome |-> "invoked", status |-> 200, lookups |-> 0, invoked |-> 1]
    ELSE IF lookup.kind = "raise"
    THEN [outcome |-> "invoked", status |-> 200, lookups |-> 1, invoked |-> 1]
    ELSE IF \E i \in 1..Len(lookup.val) : lookup.val[i] \in permissions.roles
         THEN [outcome |-> "invoked", status |-> 200, lookups |-> 1, invoked |-> 1]
         ELSE [outcome |-> "HTTPForbidden", status |-> 403, lookups |-> 1, invoked |-> 0]

\* decorated(handler, request, relpath): the outcome, the number of calls of
\* handler._roles and the number of calls of the wrapped method.  A string
\* returned by the lookup is wrapped into a one element list (the model keeps
\* it as the one element sequence val); the for/else denies when no fetched
\* role is in permissions.
decorated(permissions, lookup) ==
    IF ~permissions.given
    THEN [outcome |-> "invoked", status |-> 200, lookups |-> 0, invoked |-> 1]
    ELSE IF lookup.kind = "raise"
    THEN [outcome |-> "HTTPForbidden", status |-> 403, lookups |-> 1, invoked |-> 0]
    ELSE IF \E i \in 1..Len(lookup.val) : lookup.val[i] \in permissions.roles
         THEN [outcome |-> "invoked", status |-> 200, lookups |-> 1, invoked |-> 1]
         ELSE [outcome |-> "HTTPForbidden", status |-> 403, lookups |-> 1, invoked |-> 0]


\* the gate before any call
GateIdle == [pc |-> "off", permissions |-> NoPermissions,
             lookup |-> [kind |-> "raise", val |-> <<>>],
             outcome |-> None, status |-> 0, lookups |-> 0, invoked |-> 0]

(***************************************************************************)
(* Handler trees.  A tree is a set of objects (Nodes) with, per object,    *)
(* its kind, and per handler node its _Strict flag, its attributes         *)
(* (hasattr/getattr), its _WebMethods (addHandler) and its _MethodNames.   *)
(***************************************************************************)
Nodes == {"root", "a", "b", "c", "env", "member"}
\* the names a request path is made of: the names the application exposes
\* its objects under and ".env"
SegmentNames == {"a", "b", "c", ".env"}
\* methods every handler node has from the class WPHandler: _destroy, which
\* is not public, and addHandler; getattr gives a bound method ("member")
Members == {"_destroy", "addHandler"}
Names == SegmentNames \cup Members
\* WPHandler: a handler node without __call__; CallableWPHandler: a subclass
\* with __call__ (WPStaticHandler, LambdaHandler); function: any other
\* callable; data: an attribute that is neither
Kinds == {"WPHandler", "CallableWPHandler", "function", "data"}
DefaultMethod == "index"

isWPHandler(t, n) == t.kind[n] \in {"WPHandler", "CallableWPHandler"}
callable(t, n) == t.kind[n] \in {"CallableWPHandler", "function"}

NoAttrs == [n \in Names |-> None]
\* what hasattr/getattr find on a handler node that was given no attribute
ClassAttrs == [n \in Names |-> IF n \in Members THEN "member" ELSE None]
NoMethodNames == [given |-> FALSE, names |-> {}]

\* WPHandler.__init__: a handler that is not strict registers ".env"
InitWebMethods(strict) == IF strict THEN NoAttrs ELSE [NoAttrs EXCEPT ![".env"] = "env"]

\* how a parent exposes its child: not at all, as an attribute, through
\* addHandler, or as an attribute whose name is listed in _MethodNames
Hows == {"absent", "attr", "registered", "listed"}
Absent == [how |-> "absent", kind |-> "data", strict |-> FALSE]
ChildOptions ==
    {Absent}
    \cup {[how |-> h, kind |-> k, strict |-> FALSE] :
              h \in Hows \ {"absent"}, k \in {"function", "data"}}
    \cup {[how |-> h, kind |-> k, strict |-> s] :
              h \in Hows \ {"absent"}, k \in {"WPHandler", "CallableWPHandler"},
              s \in BOOLEAN}
LeafOptions == {Absent, [how |-> "attr", kind |-> "function", strict |-> FALSE]}
\* the root is a handler node or, when the application was given a plain
\* callable, a function
RootOptions ==
    {[how |-> "root", kind |-> k, strict |-> s] :
         k \in {"WPHandler", "CallableWPHandler"}, s \in BOOLEAN}
    \cup {[how |-> "root", kind |-> "function", strict |-> FALSE]}

\* the attributes, _WebMethods and _MethodNames of a node whose one child is
\* exposed under name as option o
AttrsOf(name, child, o) ==
    IF o.how \in {"attr", "listed"} THEN [ClassAttrs EXCEPT ![name] = child] ELSE ClassAttrs
WebMethodsOf(strict, name, child, o) ==
    IF o.how = "registered" THEN [InitWebMethods(strict) EXCEPT ![name] = child]
    ELSE InitWebMethods(strict)
MethodNamesOf(name, o) ==
    IF o.how = "listed" THEN [given |-> TRUE, names |-> {name}] ELSE NoMethodNames

\* the chain root -a-> a -b-> b -c-> c
Tree(ro, ao, bo, co) ==
    [kind |-> [n \in Nodes |->
                  CASE n = "root" -> ro.kind [] n = "a" -> ao.kind [] n = "b" -> bo.kind
                    [] n = "c" -> co.kind [] OTHER -> "function"],
     strict |-> [n \in Nodes |->
                  CASE n = "root" -> ro.strict [] n = "a" -> ao.strict
                    [] n = "b" -> bo.strict [] OTHER -> FALSE],
     attrs |-> [n \in Nodes |->
                  CASE n = "root" /\ ro.kind # "function" -> AttrsOf("a", "a", ao)
                    [] n = "a" /\ ao.kind \notin {"function", "data"} -> AttrsOf("b", "b", bo)
                    [] n = "b" /\ bo.kind \notin {"function", "data"} -> AttrsOf("c", "c", co)
                    [] OTHER -> NoAttrs],
     webmethods |-> [n \in Nodes |->
                  CASE n = "root" -> WebMethodsOf(ro.strict, "a", "a", ao)
                    [] n = "a" -> WebMethodsOf(ao.strict, "b", "b", bo)
                    [] n = "b" -> WebMethodsOf(bo.strict, "c", "c", co)
                    [] OTHER -> NoAttrs],
     methodnames |-> [n \in Nodes |->
                  CASE n = "root" -> MethodNamesOf("a", ao) [] n = "a" -> MethodNamesOf("b", bo)
                    [] n = "b" -> MethodNamesOf("c", co) [] OTHER -> NoMethodNames]]

IsHandlerOption(o) == o.how # "absent" /\ o.kind \in {"WPHandler", "CallableWPHandler"}

\* a child hangs under a handler node only
Trees ==
    {Tree(ro, x[1], x[2], x[3]) :
        ro \in RootOptions,
        x \in {y \in ChildOptions \X ChildOptions \X LeafOptions :
                  /\ (~IsHandlerOption(y[1])) => y[2] = Absent
                  /\ (~IsHandlerOption(y[2])) => y[3] = Absent}}

(***************************************************************************)
(* makeResponse.  A value a web method returns is a tuple of parts or a    *)
(* lone part; a part has a type t and, by type, a number i (int), a        *)
(* string s (str: the text; dict: the Content-Type entry it carries, None  *)
(* if it carries none) or the types l of its items (list, lazy sequence).  *)
(***************************************************************************)
Part(t, i, s, l) == [t |-> t, i |-> i, s |-> s, l |-> l]

ItemKinds == {"bytes", "str", "int"}
ItemLists == {<<"bytes">>, <<"str">>, <<"bytes", "str">>, <<"int">>, <<"bytes", "int">>}

Parts ==
    {Part("Response", 200, None, <<>>), Part("bytes", 0, None, <<>>),
     Part("NoneType", 0, None, <<>>), Part("float", 0, None, <<>>)}
    \cup {Part("int", i, None, <<>>) : i \in {200, 404}}
    \cup {Part("dict", 0, ct, <<>>) : ct \in {None, "text/csv"}}
    \cup {Part("str", 0, x, <<>>) : x \in {"text/plain"}}
    \cup {Part("list", 0, None, l) : l \in ItemLists}
    \cup {Part("iter", 0, None, l) : l \in {<<"bytes">>, <<"int">>}}

\* a value: a tuple of parts, or a lone part (parts has one element)
Values ==
    {[tuple |-> TRUE, parts |-> ps] : ps \in SeqUpTo(Parts, MaxParts)}
    \cup {[tuple |-> FALSE, parts |-> <<p>>] : p \in Parts}

\* to_bytes(x): bytes as they are, str encoded; anything else has no encode
to_bytes_raises(l) == \E i \in 1..Len(l) : l[i] \notin {"bytes", "str"}

\* Response(): status 200 and the default content type
DefaultStatus == 200
DefaultContentType == "text/html"
JsonContentType == "text/json"

\* the locals of makeResponse while it scans the parts; body is "none"
\* while app_iter and text are both None
Scan0 == [err |-> None, body |-> "none", content_type |-> None, status |-> 0,
          has_status |-> FALSE, headers |-> [given |-> FALSE, ct |-> None]]

\* one round of the loop over the parts
scan_part(a, part) ==
    IF a.err # None THEN a
    ELSE IF a.body = "none" /\ part.t = "dict"
    THEN [a EXCEPT !.body = "json", !.content_type = JsonContentType]
    ELSE IF a.body = "none" /\ part.t = "bytes" THEN [a EXCEPT !.body = "bytes"]
    ELSE IF a.body = "none" /\ part.t = "str" THEN [a EXCEPT !.body = "text"]
    ELSE IF a.body = "none" /\ part.t = "list"
    THEN IF to_bytes_raises(part.l) THEN [a EXCEPT !.err = "AttributeError"]
         ELSE [a EXCEPT !.body = "list"]
    ELSE IF a.body = "none" /\ part.t = "iter" THEN [a EXCEPT !.body = "lazy"]
    ELSE IF part.t = "dict" THEN [a EXCEPT !.headers = [given |-> TRUE, ct |-> part.s]]
    ELSE IF part.t = "int" THEN [a EXCEPT !.status = part.i, !.has_status = TRUE]
    ELSE IF part.t = "str" THEN [a EXCEPT !.content_type = part.s]
    ELSE [a EXCEPT !.err = "ValueError"]

RECURSIVE scan(_, _)
scan(a, parts) ==
    IF parts = <<>> THEN a ELSE scan(scan_part(a, Head(parts)), Tail(parts))

\* what makeResponse returns or raises
Raised(e) == [kind |-> e, same |-> FALSE, status |-> 0, body |-> "none",
              headers |-> [given |-> FALSE, ct |-> None], content_type |-> None]
\* an existing response is returned as it is; i is its status and s names
\* its body
SameResponse(p) ==
    [Raised("Response") EXCEPT !.same = TRUE, !.status = p.i,
                               !.body = IF p.s = None THEN "none" ELSE p.s]

\* the content type of the response built: Response.headers = mapping is
\* applied first, then Response.content_type = content_type when the local
\* is set, so the local wins over the Content-Type the mapping carries; with
\* neither the response keeps the default
content_type_after(a) ==
    IF a.content_type # None THEN a.content_type
    ELSE IF a.headers.given /\ a.headers.ct # None THEN a.headers.ct
    ELSE DefaultContentType

\* makeResponse(resp): the pass-through of a response, Response(status=resp)
\* for an integer, else the scan and the response built from its locals
makeResponse(resp) ==
    IF ~resp.tuple /\ resp.parts[1].t = "Response" THEN SameResponse(resp.parts[1])
    ELSE IF ~resp.tuple /\ resp.parts[1].t = "int"
    THEN [Raised("Response") EXCEPT !.status = resp.parts[1].i,
                                    !.content_type = DefaultContentType]
    ELSE LET a == scan(Scan0, resp.parts)
         IN IF a.err # None THEN Raised(a.err)
            ELSE [kind |-> "Response", same |-> FALSE,
                  status |-> IF a.has_status THEN a.status ELSE DefaultStatus,
                  body |-> a.body, headers |-> a.headers,
                  content_type |-> content_type_after(a)]

MrIdle == [pc |-> "off", resp |-> [tuple |-> TRUE, parts |-> <<>>], out |-> Raised(None)]

(***************************************************************************)
(* Paths.  A string is a sequence of tokens: "/" or a name, names being    *)
(* one token long.  A path segment is a string without "/".                *)
(***************************************************************************)
\* str.split("/"): the segments between the slashes, empty ones included
RECURSIVE split(_)
split(p) ==
    IF p = <<>> THEN << <<>> >>
    ELSE LET rest == split(Tail(p))
         IN IF Head(p) = "/" THEN << <<>> >> \o rest
            ELSE << <<Head(p)>> \o Head(rest) >> \o Tail(rest)

\* index of the first empty segment of segs, 0 if there is none
FirstEmpty(segs) ==
    IF \E i \in 1..Len(segs) : segs[i] = <<>>
    THEN CHOOSE i \in 1..Len(segs) :
             segs[i] = <<>> /\ \A j \in 1..(i - 1) : segs[j] # <<>>
    ELSE 0

\* list.remove(''): segs without its first empty segment
remove_first_empty(segs) ==
    LET i == FirstEmpty(segs)
    IN IF i = 0 THEN segs
       ELSE SubSeq(segs, 1, i - 1) \o SubSeq(segs, i + 1, Len(segs))

\* a path_down from which the empty segment is removed once only
path_down_removed_once(path) == remove_first_empty(split(path))

\* wsgi_call: path.split("/"), then remove('') while '' is in the list
RECURSIVE remove_all_empty(_)
remove_all_empty(segs) ==
    IF FirstEmpty(segs) = 0 THEN segs ELSE remove_all_empty(remove_first_empty(segs))

path_down_of(path) == remove_all_empty(split(path))

\* "/".join(segs)
RECURSIVE join(_)
join(segs) ==
    IF segs = <<>> THEN <<>>
    ELSE IF Len(segs) = 1 THEN segs[1]
    ELSE segs[1] \o <<"/">> \o join(Tail(segs))

endswith_slash(path) == path # <<>> /\ path[Len(path)] = "/"

\* the name a segment spells, None if it spells no attribute name
NameOf(seg) == IF Len(seg) = 1 /\ seg[1] \in Names THEN seg[1] ELSE None

(***************************************************************************)
(* WPHandler.step_down                                                     *)
(***************************************************************************)
\* what step_down returns: an object, None, or it raises NameError (the
\* identifier "method" it reads is bound nowhere)
Stepped(n) == [kind |-> "attr", node |-> n]
SteppedNone == [kind |-> "None", node |-> None]
SteppedNameError == [kind |-> "NameError", node |-> None]

step_down(t, h, name) ==
    LET n == NameOf(name)
        has == n # None /\ t.attrs[h][n] # None
        reg == n # None /\ ~has /\ t.webmethods[h][n] # None
        attr == IF has THEN t.attrs[h][n]
                ELSE IF reg THEN t.webmethods[h][n] ELSE None
        allowed == IF reg THEN TRUE ELSE ~t.strict[h]
    IN IF attr = None THEN SteppedNone
       ELSE IF callable(t, attr)
       THEN IF allowed \/ (t.methodnames[h].given /\ n \in t.methodnames[h].names)
            THEN Stepped(attr)
            ELSE SteppedNameError
       ELSE IF isWPHandler(t, attr) THEN Stepped(attr)
       ELSE SteppedNone

(***************************************************************************)
(* WPApp.find_web_method                                                   *)
(***************************************************************************)
NoPaths == [n \in Nodes |-> <<>>]

\* the result of a descent: kind is "method" (a callable and its relpath),
\* "notfound" (method is None), "redirect" (HTTPFound raised, with its
\* location) or "NameError" (raised by step_down).  visited lists the objects
\* find_web_method was called on, paths the Path set on each handler node
\* (<<>> where none was set).
Outcome(kind, method, relpath, location, visited, paths) ==
    [kind |-> kind, method |-> method, relpath |-> relpath, location |-> location,
     visited |-> visited, paths |-> paths]

\* a relpath that misses the first of the remaining segments
relpath_without_first(path_down) ==
    IF path_down = <<>> THEN <<>> ELSE join(Tail(path_down))

\* relpath = "/".join(path_down)
relpath_of(path_down) == join(path_down)

\* "/" appended without looking at how the path ends
with_slash_always(path) == path \o <<"/">>

\* if not path.endswith("/"): path += "/"
with_slash(path) == IF endswith_slash(path) THEN path ELSE path \o <<"/">>

\* find_web_method(handler, request, path, path_down, args) on tree t;
\* visited and paths accumulate over the recursion
RECURSIVE find_web_method(_, _, _, _, _, _)
find_web_method(t, handler, path0, path_down, visited, paths) ==
    LET path == IF path0 = <<>> THEN <<"/">> ELSE path0
        vis == Append(visited, handler)
        slashed == with_slash(path)
        relpath == relpath_of(path_down)
    IN IF isWPHandler(t, handler)
       THEN LET paths1 == [paths EXCEPT ![handler] = path]
                sd == IF path_down # <<>> THEN step_down(t, handler, Head(path_down))
                      ELSE SteppedNone
            IN IF sd.kind = "NameError"
               THEN Outcome("NameError", None, <<>>, <<>>, vis, paths1)
               ELSE IF sd.kind = "attr"
               THEN find_web_method(t, sd.node, slashed \o Head(path_down),
                                    Tail(path_down), vis, paths1)
               ELSE IF callable(t, handler)
               THEN Outcome("method", handler, relpath, <<>>, vis, paths1)
               ELSE IF path_down = <<>>
               THEN Outcome("redirect", None, <<>>, slashed \o <<DefaultMethod>>, vis, paths1)
               ELSE Outcome("notfound", None, relpath, <<>>, vis, paths1)
       ELSE IF callable(t, handler)
       THEN Outcome("method", handler, relpath, <<>>, vis, paths)
       ELSE Outcome("notfound", None, relpath, <<>>, vis, paths)

(***************************************************************************)
(* Request paths and their resolution                                      *)
(***************************************************************************)
\* the request path with the segments segs, each after a slash
RECURSIVE PathOf(_)
PathOf(segs) ==
    IF segs = <<>> THEN <<>>
    ELSE <<"/">> \o segs[1] \o PathOf(Tail(segs))

BasePaths == {PathOf(segs) : segs \in SeqUpTo({<<n>> : n \in SegmentNames}, MaxSegs)}

Pending == Outcome("pending", None, <<>>, <<>>, <<>>, NoPaths)

\* wsgi_call up to the return of find_web_method, on a fresh tree t
resolve(t, path) == find_web_method(t, "root", <<>>, path_down_of(path), <<>>, NoPaths)

RsIdle == [tree |-> Tree([how |-> "root", kind |-> "WPHandler", strict |-> FALSE],
                        Absent, Absent, Absent),
           path |-> <<<<>>, <<>>>>, out |-> <<Pending, Pending>>]


(***************************************************************************)
(* Teardown: root_handler.destroy(), root_handler._destroy() and the       *)
(* recursion of WPHandler._destroy over the handler nodes found in         *)
(* __dict__                                                                *)
(***************************************************************************)
\* the handler nodes of a request and the names of the attributes that may
\* hold one; __dict__ is walked in the order the attributes were set
TdNodes == {"root", "x", "y"}
AttrNames == {"p", "q"}
AttrOrder == <<"p", "q">>

NoDict == [n \in TdNodes |-> [a \in AttrNames |-> None]]
\* the attribute graphs: per node and attribute name a handler node, or None
\* for an attribute that holds no handler node
Dicts == [TdNodes -> [AttrNames -> TdNodes \cup {None}]]

\* the frame of one execution of the body of _destroy: its node, the place k
\* of the loop in AttrOrder, and the statement it is at
Frame(n) == [node |-> n, k |-> 1, at |-> "destroy"]

\* the test that ends _destroy at once
guard_never(BeingDestroyed, n) == FALSE

\* if self.BeingDestroyed: return
guard(BeingDestroyed, n) == BeingDestroyed[n]

\* raises names the node whose destroy hook raises (None: no hook raises);
\* hooks counts the calls of destroy() per node, bodies the executions of
\* the body of _destroy past the guard, App_none tells that _destroy set
\* self.App = None
TdIdle == [pc |-> "off", dict |-> NoDict, raises |-> None,
           BeingDestroyed |-> [n \in TdNodes |-> FALSE],
           App_none |-> [n \in TdNodes |-> FALSE],
           hooks |-> [n \in TdNodes |-> 0], bodies |-> [n \in TdNodes |-> 0],
           stack |-> <<>>]

(***************************************************************************)
(* Template globals: WPApp.JGlobals, written by setJinjaGlobals under      *)
(* _AppLock and read by add_globals                                        *)
(***************************************************************************)
\* a dict of template globals: per key its value, None where the key is absent
EmptyDict == [site |-> None, user |-> None]
GlobalsDicts == {EmptyDict, [site |-> "1", user |-> None], [site |-> "2", user |-> None],
                 [site |-> "2", user |-> "u"]}

\* d.update(e)
update(d, e) == [k \in DOMAIN d |-> IF e[k] # None THEN e[k] ELSE d[k]]

\* the locals of a thread: globals is the argument of setJinjaGlobals, params
\* the dict add_globals last built, read tells that it built one
JgThread == [pc |-> "idle", globals |-> EmptyDict, params |-> EmptyDict, read |-> FALSE]

JgIdle == [JGlobals |-> EmptyDict, lock_owner |-> 0, applied |-> {}, calls |-> 0,
           th |-> [t \in 1..NumThreads |-> [JgThread EXCEPT !.pc = "off"]]]
(***************************************************************************)
(* WPApp.parseQuery.  A query string is a sequence of tokens: "&", "=" or  *)
(* a character.                                                            *)
(***************************************************************************)
QueryTokens == {"a", "b", "1", "=", "&"}
Queries == SeqUpTo(QueryTokens, MaxQuery)

\* str.split(sep): the pieces between the separators, empty ones included
RECURSIVE split_on(_, _)
split_on(str, sep) ==
    IF str = <<>> THEN << <<>> >>
    ELSE LET rest == split_on(Tail(str), sep)
         IN IF Head(str) = sep THEN << <<>> >> \o rest
            ELSE << <<Head(str)>> \o Head(rest) >> \o Tail(rest)

\* w.split("=", 1): the piece before the first "=" and, if there is a "=",
\* the rest after it
split_once(w) ==
    LET pieces == split_on(w, "=")
    IN IF Len(pieces) = 1 THEN <<pieces[1]>>
       ELSE <<pieces[1], SubSeq(w, Len(pieces[1]) + 2, Len(w))>>

\* a value of the mapping: None, or a string
NoneValue == [none |-> TRUE, str |-> <<>>]
StrValue(x) == [none |-> FALSE, str |-> x]

\* the entry of key k in out, 0 if k is not in out; out lists the keys in
\* the order they were inserted, each with its value: a lone value (vals has
\* one element) or, if islist, a list of values
IndexOf(out, k) ==
    IF \E i \in 1..Len(out) : out[i].k = k
    THEN CHOOSE i \in 1..Len(out) : out[i].k = k
    ELSE 0

\* an item handling that keeps the last value of a repeated key
parse_item_last_wins(out, w) ==
    LET words == split_once(w)
        k == words[1]
        v == IF Len(words) > 1 THEN StrValue(words[2]) ELSE NoneValue
        i == IndexOf(out, k)
    IN IF w = <<>> \/ k = <<>> THEN out
       ELSE IF i # 0 THEN [out EXCEPT ![i].vals = <<v>>]
       ELSE Append(out, [k |-> k, islist |-> FALSE, vals |-> <<v>>])

\* one round of the loop of parseQuery over the items
parse_item(out, w) ==
    LET words == split_once(w)
        k == words[1]
        v == IF Len(words) > 1 THEN StrValue(words[2]) ELSE NoneValue
        i == IndexOf(out, k)
    IN IF w = <<>> \/ k = <<>> THEN out
       ELSE IF i # 0 THEN [out EXCEPT ![i].islist = TRUE, ![i].vals = Append(@, v)]
       ELSE Append(out, [k |-> k, islist |-> FALSE, vals |-> <<v>>])

RECURSIVE parse_items(_, _)
parse_items(out, items) ==
    IF items = <<>> THEN out ELSE parse_items(parse_item(out, Head(items)), Tail(items))

parseQuery(query) == parse_items(<<>>, split_on(query, "&"))

PqIdle == [pc |-> "off", query |-> <<>>, out |-> <<>>]
\* a call of step_down: the tree, the handler node, the segment and what
\* the call returned
StpIdle == [pc |-> "off", tree |-> RsIdle.tree, handler |-> "root", name |-> <<>>,
            out |-> SteppedNone]

(***************************************************************************)
(* app_synchronized: with self._app_lock(), where _AppLock is an RLock;    *)
(* WPApp.__enter__ and WPApp.__exit__ take and give back the same lock     *)
(***************************************************************************)
\* a lock that its owner can not take again
available_not_reentrant(owner, t) == owner = 0

\* RLock.acquire goes on without blocking: the lock is free or the caller
\* owns it
available(owner, t) == owner = 0 \/ owner = t

\* the number of times thread t holds the lock l
hold(l, t) == IF l.owner = t THEN l.count ELSE 0

\* RLock.release by its owner
release(l) == [l EXCEPT !.count = @ - 1, !.owner = IF l.count = 1 THEN 0 ELSE @]

\* a thread: stack holds, per scope it is in (the body of a synchronized
\* method, the block of with app:), the kind of the scope and the hold count
\* the thread had before it; before is that count while the thread waits
\* for the lock in synchronized_method, calls the number of scopes it
\* opened, last the hold counts before and after the call of a synchronized
\* method that ended since the thread last called one, and how it ended
LkThread == [pc |-> "idle", stack |-> <<>>, before |-> 0, calls |-> 0,
             last |-> [before |-> 0, after |-> 0, how |-> None]]

LkIdle == [owner |-> 0, count |-> 0,
           th |-> [t \in 1..NumThreads |-> [LkThread EXCEPT !.pc = "off"]]]

(***************************************************************************)
(* The application coordinator: WPApp.__call__ and WPApp.wsgi_call, one    *)
(* request per thread.  app is the state of the WPApp object the threads   *)
(* share, th[t] the locals of the call on thread t.                        *)
(***************************************************************************)
Threads == 1..NumThreads

NoPrefix == [given |-> FALSE, val |-> <<>>]

\* path.startswith(prefix)
startswith(path, prefix) ==
    Len(path) >= Len(prefix) /\ SubSeq(path, 1, Len(prefix)) = prefix

\* a prefix test that takes any path beginning with the prefix as a match
convertPath_startswith(prefix, replace, path) ==
    IF ~prefix.given THEN [ok |-> TRUE, path |-> path]
    ELSE LET replaced == IF replace.given
                         THEN replace.val \o SubSeq(path, Len(prefix.val) + 1, Len(path))
                         ELSE path
         IN IF ~startswith(path, prefix.val) THEN [ok |-> FALSE, path |-> <<>>]
            ELSE [ok |-> TRUE, path |-> IF replaced = <<>> THEN <<"/">> ELSE replaced]

\* WPApp.convertPath: ok is FALSE where it returns None
convertPath(prefix, replace, path) ==
    IF ~prefix.given THEN [ok |-> TRUE, path |-> path]
    ELSE LET matched == IF path = prefix.val THEN path
                        ELSE IF startswith(path, prefix.val \o <<"/">>) THEN prefix.val
                        ELSE <<>>
             isNone == path # prefix.val /\ ~startswith(path, prefix.val \o <<"/">>)
             replaced == IF replace.given
                         THEN replace.val \o SubSeq(path, Len(matched) + 1, Len(path))
                         ELSE path
         IN IF isNone THEN [ok |-> FALSE, path |-> <<>>]
            ELSE [ok |-> TRUE, path |-> IF replaced = <<>> THEN <<"/">> ELSE replaced]

\* PATH_INFO of the requests
RequestPaths == {<<"/">>, <<"/", "a">>, <<"/", "p">>, <<"/", "p", "/", "a">>, <<"/", "p", "a">>}

\* the prefix rule the application was constructed with
PrefixRules ==
    {[Prefix |-> NoPrefix, ReplacePrefix |-> [given |-> TRUE, val |-> <<>>]],
     [Prefix |-> [given |-> TRUE, val |-> <<"/", "p">>],
      ReplacePrefix |-> [given |-> TRUE, val |-> <<>>]],
     [Prefix |-> [given |-> TRUE, val |-> <<"/", "p">>],
      ReplacePrefix |-> [given |-> TRUE, val |-> <<"/", "a">>]],
     [Prefix |-> [given |-> TRUE, val |-> <<"/", "p">>],
      ReplacePrefix |-> [given |-> FALSE, val |-> <<>>]]}

\* the trees the root class builds: a strict or permissive root that exposes
\* nothing, a method a, or a child handler a
AppTrees ==
    {Tree([how |-> "root", kind |-> "WPHandler", strict |-> s], ao, Absent, Absent) :
        s \in BOOLEAN,
        ao \in {Absent, [how |-> "attr", kind |-> "function", strict |-> FALSE],
                [how |-> "attr", kind |-> "WPHandler", strict |-> FALSE]}}

\* a response object with status i whose body is named s
ResponseValue(i, s) == [tuple |-> FALSE, parts |-> <<Part("Response", i, s, <<>>)>>]
NoValue == [tuple |-> TRUE, parts |-> <<>>]

\* a diagnostic response that reports success
applicationErrorResponse_ok == ResponseValue(200, "Application error")

\* WPApp.applicationErrorResponse: the page with the trace, status 500
applicationErrorResponse == ResponseValue(500, "Application error")

\* what the web method does when called: it returns a value, or it raises
\* an error, an HTTP response exception of webob (a redirect, forbidden: a
\* response itself), an HTTPResponseException or a bare HTTPException
MethodValues ==
    {[tuple |-> FALSE, parts |-> <<p>>] :
         p \in {Part("str", 0, "text/plain", <<>>), Part("NoneType", 0, None, <<>>),
                Part("list", 0, None, <<"int">>), Part("iter", 0, None, <<"bytes">>),
                Part("int", 404, None, <<>>)}}
    \cup {[tuple |-> TRUE, parts |-> <<Part("bytes", 0, None, <<>>), Part("bytes", 0, None, <<>>)>>]}
Behaviours ==
    {[does |-> "return", value |-> v] : v \in MethodValues}
    \cup {[does |-> d, value |-> NoValue] :
              d \in {"raise", "raise HTTPFound", "raise HTTPResponseException",
                     "raise HTTPException"}}

\* the try block of wsgi_call: the descent, the call of the method and the
\* except clauses; cause tells what happened, value is the local response
try_block(t, path, b) ==
    LET o == resolve(t, path)
    IN IF o.kind = "redirect" THEN [cause |-> "redirect", value |-> ResponseValue(302, None)]
       ELSE IF o.kind = "NameError"
       THEN [cause |-> "descent raised", value |-> applicationErrorResponse]
       ELSE IF o.kind = "notfound"
       THEN [cause |-> "notfound", value |-> ResponseValue(404, None)]
       ELSE IF b.does = "return" THEN [cause |-> "returned", value |-> b.value]
       ELSE IF b.does = "raise"
       THEN [cause |-> "method raised", value |-> applicationErrorResponse]
       ELSE IF b.does = "raise HTTPFound"
       THEN [cause |-> "method raised HTTPFound", value |-> ResponseValue(302, None)]
       ELSE [cause |-> "method " \o b.does,
             value |-> [tuple |-> FALSE, parts |-> <<Part("Exception", 0, None, <<>>)>>]]

ThStart == [pc |-> "start", original_path |-> <<>>, path |-> <<>>, cause |-> None, value |-> NoValue,
            resp |-> Raised(None), exc |-> None, sr_calls |-> 0, sr_status |-> 0,
            root |-> FALSE, root_id |-> 0, torn |-> FALSE, pending |-> FALSE]

AppIdle == [tree |-> RsIdle.tree, Prefix |-> NoPrefix,
            ReplacePrefix |-> [given |-> TRUE, val |-> <<>>],
            Initialized |-> FALSE, init_calls |-> 0, lock_owner |-> 0,
            unlocked_writes |-> 0, requests |-> 0,
            RootHandler |-> FALSE, instances |-> 0, roots |-> <<>>]
ThIdle == [t \in Threads |-> [ThStart EXCEPT !.pc = "off"]]

Others == <<gate, rs, mr, td, jg, pq, stp, lk>>

\* __call__ up to convertPath, for a request with one of the paths: no match
\* answers 404 at once, with return HTTPNotFound()(environ, start_response),
\* which is outside the try: a start_response that raises there leaves
\* __call__ and no status was accepted
CallStart(t, paths, mayRaise) ==
    /\ th[t].pc = "start"
    /\ \E path \in paths :
           LET c == convertPath(app.Prefix, app.ReplacePrefix, path)
               r == SameResponse(ResponseValue(404, None).parts[1])
           IN IF c.ok
              THEN th' = [th EXCEPT ![t].pc = "check_init", ![t].path = c.path,
                                    ![t].original_path = path]
              ELSE \/ th' = [th EXCEPT ![t].pc = "done", ![t].cause = "no prefix",
                                       ![t].original_path = path, ![t].resp = r,
                                       ![t].sr_calls = 1, ![t].sr_status = 404]
                   \/ mayRaise /\ th' = [th EXCEPT ![t].pc = "propagated",
                                                   ![t].cause = "no prefix",
                                                   ![t].original_path = path,
                                                   ![t].resp = r, ![t].sr_calls = 1,
                                                   ![t].exc = "emit of the 404"]
    /\ UNCHANGED <<app, Others>>

\* if not self.Initialized
CheckInitialized(t) ==
    /\ th[t].pc = "check_init"
    /\ th' = [th EXCEPT ![t].pc = IF app.Initialized THEN "build_root" ELSE "init1"]
    /\ UNCHANGED <<app, Others>>

\* the first self.init(); an init that raises is not caught
Init1(t, mayRaise) ==
    /\ th[t].pc = "init1"
    /\ app' = [app EXCEPT !.init_calls = @ + 1]
    /\ \/ th' = [th EXCEPT ![t].pc = "set_init"]
       \/ mayRaise /\ th' = [th EXCEPT ![t].pc = "propagated", ![t].exc = "init"]
    /\ UNCHANGED Others

\* self.Initialized = True
SetInitialized(t) ==
    /\ th[t].pc = "set_init"
    /\ app' = [app EXCEPT !.Initialized = TRUE,
                          !.unlocked_writes = IF app.lock_owner = t THEN @ ELSE 1]
    /\ th' = [th EXCEPT ![t].pc = "init2"]
    /\ UNCHANGED Others

\* the second self.init()
Init2(t, mayRaise) ==
    /\ th[t].pc = "init2"
    /\ app' = [app EXCEPT !.init_calls = @ + 1]
    /\ \/ th' = [th EXCEPT ![t].pc = "build_root"]
       \/ mayRaise /\ th' = [th EXCEPT ![t].pc = "propagated", ![t].exc = "init"]
    /\ UNCHANGED Others

\* root_handler = self.RootHandler or self.RootClass(...): the instance given
\* to the constructor of the application (app.RootHandler; it has identity
\* 0), or a new instance of the root class (identities 1, 2, ...); a
\* constructor that raises is not caught.  app.roots lists the identities of
\* the root handlers of the requests
BuildRoot(t, mayRaise) ==
    /\ th[t].pc = "build_root"
    /\ IF app.RootHandler
       THEN /\ th' = [th EXCEPT ![t].pc = "try", ![t].root = TRUE, ![t].root_id = 0]
            /\ app' = [app EXCEPT !.roots = Append(@, 0)]
       ELSE \/ /\ th' = [th EXCEPT ![t].pc = "try", ![t].root = TRUE,
                                    ![t].root_id = app.instances + 1]
               /\ app' = [app EXCEPT !.instances = @ + 1,
                                     !.roots = Append(@, app.instances + 1)]
            \/ /\ mayRaise
               /\ th' = [th EXCEPT ![t].pc = "propagated", ![t].exc = "root"]
               /\ app' = app
    /\ UNCHANGED Others

\* wsgi_call, the try block, with a method that behaves in one of the ways
WsgiTry(t, behaviours) ==
    /\ th[t].pc = "try"
    /\ \E b \in behaviours :
           LET r == try_block(app.tree, th[t].path, b)
           IN th' = [th EXCEPT ![t].pc = "coerce", ![t].cause = r.cause,
                               ![t].value = r.value, ![t].path = <<>>]
    /\ UNCHANGED <<app, Others>>

\* wsgi_call: makeResponse; ValueError gives the diagnostic response, any
\* other error leaves wsgi_call
WsgiCoerce(t) ==
    /\ th[t].pc = "coerce"
    /\ LET r == makeResponse(th[t].value)
       IN IF r.kind = "Response"
          THEN th' = [th EXCEPT ![t].pc = "emit", ![t].resp = r, ![t].value = NoValue]
          ELSE IF r.kind = "ValueError"
          THEN th' = [th EXCEPT ![t].pc = "emit", ![t].value = NoValue,
                                ![t].cause = IF @ = "returned" THEN "coercion ValueError" ELSE @,
                                ![t].resp = makeResponse(applicationErrorResponse)]
          ELSE th' = [th EXCEPT ![t].pc = "except", ![t].value = NoValue,
                                ![t].cause = "coercion " \o r.kind,
                                ![t].exc = "coerce"]
    /\ UNCHANGED <<app, Others>>

\* wsgi_call: out = response(environ, start_response); start_response may
\* raise.  A lazy body (app_iter is the generator the method returned) is
\* not produced here: pending tells that the transport has yet to pull it
WsgiEmit(t, mayRaise) ==
    /\ th[t].pc = "emit"
    /\ \/ th' = [th EXCEPT ![t].pc = "destroy", ![t].sr_calls = @ + 1,
                           ![t].sr_status = th[t].resp.status,
                           ![t].pending = (th[t].resp.body = "lazy")]
       \/ mayRaise /\ th' = [th EXCEPT ![t].pc = "except", ![t].sr_calls = @ + 1,
                                       ![t].exc = "emit"]
    /\ UNCHANGED <<app, Others>>

\* wsgi_call: root_handler.destroy(), which may raise, and root_handler._destroy()
WsgiDestroy(t, mayRaise) ==
    /\ th[t].pc = "destroy"
    /\ \/ th' = [th EXCEPT ![t].pc = "done", ![t].torn = TRUE]
       \/ mayRaise /\ th' = [th EXCEPT ![t].pc = "except", ![t].exc = "destroy"]
    /\ UNCHANGED <<app, Others>>

\* __call__: except: the diagnostic response is emitted; start_response may
\* raise.  The iterable wsgi_call had in out is lost with the exception: what
\* __call__ returns is the body of the diagnostic response, so no lazy body
\* is left for the transport to pull
CallExcept(t) ==
    /\ th[t].pc = "except"
    /\ LET r == makeResponse(applicationErrorResponse)
       IN \/ th' = [th EXCEPT ![t].pc = "done", ![t].resp = r, ![t].sr_calls = @ + 1,
                              ![t].sr_status = r.status, ![t].pending = FALSE]
          \/ th' = [th EXCEPT ![t].pc = "propagated", ![t].resp = r,
                              ![t].sr_calls = @ + 1, ![t].exc = "emit in except",
                              ![t].pending = FALSE]
    /\ UNCHANGED <<app, Others>>

\* the transport, which has the iterable __call__ returned, pulls the chunks
\* of a lazy body up to the last one
TransportPull(t) ==
    /\ th[t].pc = "done"
    /\ th[t].pending
    /\ th' = [th EXCEPT ![t].pending = FALSE]
    /\ UNCHANGED <<app, Others>>

\* the transport has the result of the call (or its exception) and hands the
\* next request to the thread
NextRequest(t) ==
    /\ th[t].pc \in {"done", "propagated"}
    /\ ~th[t].pending
    /\ app.requests < MaxRequests
    /\ app' = [app EXCEPT !.requests = @ + 1]
    /\ th' = [th EXCEPT ![t] = ThStart]
    /\ UNCHANGED Others

(***************************************************************************)
(* Requests served one after the other, by methods, hooks and a            *)
(* start_response that may raise                                           *)
(***************************************************************************)
\* WPApp.__init__: Initialized is False and the lock is free; lock_owner is
\* the thread that holds _AppLock (0 for none), init_calls counts the calls
\* of init(), unlocked_writes is 1 once Initialized was written by a thread
\* that did not hold the lock, requests counts the requests handed over
AppCreated ==
    \E t \in AppTrees, r \in PrefixRules, h \in BOOLEAN :
        app = [AppIdle EXCEPT !.tree = t, !.Prefix = r.Prefix,
                              !.ReplacePrefix = r.ReplacePrefix, !.requests = 1,
                              !.RootHandler = h]

CallInit ==
    /\ gate = GateIdle /\ rs = RsIdle /\ mr = MrIdle
    /\ td = TdIdle /\ jg = JgIdle /\ pq = PqIdle /\ stp = StpIdle /\ lk = LkIdle
    /\ AppCreated
    /\ th = [t \in Threads |-> IF t = 1 THEN ThStart ELSE ThIdle[t]]

CallNext ==
    \/ CallStart(1, RequestPaths, TRUE)
    \/ CheckInitialized(1)
    \/ Init1(1, TRUE)
    \/ SetInitialized(1)
    \/ Init2(1, TRUE)
    \/ BuildRoot(1, TRUE)
    \/ WsgiTry(1, Behaviours)
    \/ WsgiCoerce(1)
    \/ WsgiEmit(1, TRUE)
    \/ WsgiDestroy(1, TRUE)
    \/ CallExcept(1)
    \/ TransportPull(1)
    \/ NextRequest(1)

CallSpec == CallInit /\ [][CallNext]_vars

(***************************************************************************)
(* Concurrent requests, one per thread, served by a method that returns    *)
(* text; nothing raises                                                    *)
(***************************************************************************)
AppInit ==
    /\ gate = GateIdle /\ rs = RsIdle /\ mr = MrIdle
    /\ td = TdIdle /\ jg = JgIdle /\ pq = PqIdle /\ stp = StpIdle /\ lk = LkIdle
    /\ AppCreated
    /\ th = [t \in Threads |-> ThStart]

ReturnsText == {[does |-> "return",
                 value |-> [tuple |-> FALSE, parts |-> <<Part("str", 0, "text/plain", <<>>)>>]]}

AppNext ==
    \E t \in Threads :
        \/ CallStart(t, {<<"/", "a">>, <<"/", "p", "/", "a">>}, FALSE)
        \/ CheckInitialized(t)
        \/ Init1(t, FALSE)
        \/ SetInitialized(t)
        \/ Init2(t, FALSE)
        \/ BuildRoot(t, FALSE)
        \/ WsgiTry(t, ReturnsText)
        \/ WsgiCoerce(t)
        \/ WsgiEmit(t, FALSE)
        \/ WsgiDestroy(t, FALSE)

AppSpec == AppInit /\ [][AppNext]_vars

\* C9: a fault raised while the terminal callable is invoked, and a
\* ValueError raised while its return value is coerced, is turned into the
\* 500 diagnostic response inside wsgi_call: it is the response handed to
\* start_response, and it is not the exception that leaves __call__ (what
\* leaves __call__ then is raised by start_response or by the destroy hook
\* and, after that, by start_response once more).
C9_FaultsBecome500 ==
    \A t \in Threads :
        (th[t].cause \in {"method raised", "method raise HTTPResponseException",
                          "method raise HTTPException", "coercion ValueError"}) =>
            /\ th[t].pc \in {"coerce", "emit", "destroy", "except", "done", "propagated"}
            /\ th[t].pc \in {"emit", "destroy"} =>
                   (th[t].resp.status = 500 /\ th[t].resp.body = "Application error"
                    /\ th[t].exc = None)
            /\ (th[t].pc # "coerce" /\ th[t].sr_calls > 0 /\ th[t].sr_status # 0) =>
                   th[t].sr_status = 500
            /\ th[t].pc = "except" => th[t].exc \in {"emit", "destroy"}
            /\ th[t].pc = "propagated" => th[t].exc = "emit in except"

\* the method raised, the diagnostic response went out and the call is over
C9_Witness ==
    /\ th[1].pc = "done"
    /\ th[1].cause = "method raised"
    /\ th[1].sr_calls = 1 /\ th[1].sr_status = 500
    /\ th[1].exc = None

\* C10: over any interleaving of the requests init() is executed once in
\* total, and Initialized is written only by a thread that holds the lock
\* (__call__ never acquires _AppLock, so lock_owner stays 0 here).
C10_InitOnce ==
    /\ app.init_calls <= 1
    /\ (\E t \in Threads : th[t].pc \in {"build_root", "try", "coerce", "emit", "destroy"})
           => app.init_calls = 1
    /\ app.unlocked_writes = 0

\* the request on thread t is past convertPath
Converted(t) == th[t].pc \notin {"off", "start"}

\* C13: with a configured prefix, a request whose path neither equals the
\* prefix nor starts with the prefix followed by "/" ends at once in the 404
\* response: that response is handed to start_response, once, and the call
\* is over (the 404 is the accepted status unless start_response itself
\* raised); it never reaches the initialization, the construction of the
\* root or the call of a method; a path that does match goes on with the
\* prefix replaced by the configured replacement, "/" if that leaves nothing.
C13_PrefixGate ==
    \A t \in Threads : (Converted(t) /\ app.Prefix.given) =>
        LET p == th[t].original_path
            pre == app.Prefix.val
        IN IF p # pre /\ ~startswith(p, pre \o <<"/">>)
           THEN /\ th[t].pc \in {"done", "propagated"} /\ th[t].cause = "no prefix"
                /\ th[t].resp.status = 404 /\ th[t].sr_calls = 1
                /\ th[t].pc = "done" => (th[t].sr_status = 404 /\ th[t].exc = None)
                /\ th[t].pc = "propagated" =>
                       (th[t].sr_status = 0 /\ th[t].exc = "emit of the 404")
                /\ ~th[t].root /\ ~th[t].torn /\ th[t].value = NoValue
           ELSE /\ th[t].cause # "no prefix"
                /\ (app.ReplacePrefix.given
                        /\ th[t].pc \in {"check_init", "init1", "set_init", "init2",
                                         "build_root", "try"}) =>
                       LET r == app.ReplacePrefix.val \o SubSeq(p, Len(pre) + 1, Len(p))
                       IN th[t].path = IF r = <<>> THEN <<"/">> ELSE r

\* prefix /p: the request /pa was answered 404 without a root handler
C13_Witness ==
    /\ app.Prefix = [given |-> TRUE, val |-> <<"/", "p">>]
    /\ th[1].pc = "done" /\ th[1].original_path = <<"/", "p", "a">>
    /\ th[1].sr_status = 404 /\ ~th[1].root

\* C18: the root handler of a request is an instance that no other request
\* of the application uses, with a root class and with a root instance.
C18_RootNotShared ==
    \A i, j \in 1..Len(app.roots) : app.roots[i] = app.roots[j] => i = j

\* C19: a fault raised while the root handler is constructed is answered
\* with the diagnostic response; it does not leave __call__.
C19_RootFaultAnswered ==
    \A t \in Threads : th[t].exc = "root" =>
        /\ th[t].pc \in {"except", "done"}
        /\ th[t].pc = "done" => th[t].sr_status = 500

\* C21: the handler tree of a request is not torn down while the production
\* of its body is pending: with a lazy body the teardown comes after the
\* transport pulled the last chunk.
C21_TeardownAfterBody ==
    \A t \in Threads : th[t].torn => ~th[t].pending

\* C23: when a call of __call__ has returned, start_response was invoked
\* exactly once during it, whatever path the request took through the
\* invocation, the coercion, the emission and the teardown.
C23_EmittedOnce ==
    \A t \in Threads : th[t].pc = "done" => th[t].sr_calls = 1

\* C11: every request for which a root handler node was constructed has its
\* tree torn down (destroy and _destroy on the root) by the time the pipeline
\* is over, however the request ended.
C11_TornDown ==
    \A t \in Threads :
        (th[t].pc \in {"done", "propagated"} /\ th[t].root) => th[t].torn

(***************************************************************************)
(* Two requests whose paths differ by a trailing slash                     *)
(***************************************************************************)
\* the tree the root class builds, and the two request paths: one without
\* and one with a trailing slash
ResolveInit ==
    /\ gate = GateIdle
    /\ mr = MrIdle
    /\ app = AppIdle /\ th = ThIdle
    /\ td = TdIdle /\ jg = JgIdle /\ pq = PqIdle /\ stp = StpIdle /\ lk = LkIdle
    /\ \E t \in Trees, p \in BasePaths :
           rs = [tree |-> t, path |-> <<p, p \o <<"/">>>>, out |-> <<Pending, Pending>>]

\* request i is resolved; the two requests are served one after the other
WsgiResolve(i) ==
    /\ rs.out[i].kind = "pending"
    /\ \A j \in 1..(i - 1) : rs.out[j].kind # "pending"
    /\ rs' = [rs EXCEPT !.out[i] = resolve(rs.tree, rs.path[i])]
    /\ UNCHANGED <<gate, mr, app, th, td, jg, pq, stp, lk>>

ResolveNext == \E i \in 1..2 : WsgiResolve(i)

ResolveSpec == ResolveInit /\ [][ResolveNext]_vars

ResolveDone(i) == rs.out[i].kind # "pending"

\* the part of an outcome a client can tell: the callable and its relpath,
\* the redirect location, not found, or the fault
Visible(o) == [kind |-> o.kind, method |-> o.method, location |-> o.location,
               relpath |-> IF o.kind = "method" THEN o.relpath ELSE <<>>]

\* C6: two request paths that differ only by a trailing slash resolve to the
\* same outcome: the same callable with the same relpath, the same redirect
\* location, or not found in both cases.
C6_TrailingSlash ==
    (ResolveDone(1) /\ ResolveDone(2)) => Visible(rs.out[1]) = Visible(rs.out[2])

\* /a/b and /a/b/ both end at the callable b
C6_Witness ==
    /\ ResolveDone(1) /\ ResolveDone(2)
    /\ rs.path = << <<"/", "a", "/", "b">>, <<"/", "a", "/", "b", "/">> >>
    /\ rs.out[2].kind = "method" /\ rs.out[2].method = "b"

\* the segments left when the i-th object of the descent was reached
Remaining(i, k) == SubSeq(path_down_of(rs.path[k]), i, Len(path_down_of(rs.path[k])))

\* name is registered on handler h: through addHandler or in _MethodNames
Registered(t, h, name) ==
    /\ NameOf(name) # None
    /\ \/ t.webmethods[h][NameOf(name)] # None
       \/ t.methodnames[h].given /\ NameOf(name) \in t.methodnames[h].names

\* C3: on a strict handler node the step down into a segment that is not an
\* explicitly registered name yields nothing: the descent does not go on into
\* it, nothing is raised, and on a node that is not callable the request ends
\* as not found.
C3_StrictOnlyRegistered ==
    \A k \in 1..2 : ResolveDone(k) =>
        \A i \in 1..Len(rs.out[k].visited) :
            LET h == rs.out[k].visited[i]
                rem == Remaining(i, k)
            IN (isWPHandler(rs.tree, h) /\ rs.tree.strict[h] /\ rem # <<>>
                    /\ ~Registered(rs.tree, h, rem[1])) =>
                   /\ Len(rs.out[k].visited) = i
                   /\ rs.out[k].kind # "NameError"
                   /\ ~callable(rs.tree, h) => rs.out[k].kind = "notfound"

\* C7 as claimed: a callable that the descent reaches with segments remaining
\* is the terminal callable, and the relpath is the remaining segments joined
\* by "/".
C7_CallableIsTerminal ==
    \A k \in 1..2 : ResolveDone(k) =>
        \A i \in 2..Len(rs.out[k].visited) :
            LET h == rs.out[k].visited[i]
                rem == Remaining(i, k)
            IN (callable(rs.tree, h) /\ rem # <<>>) =>
                   /\ rs.out[k].kind = "method"
                   /\ rs.out[k].method = h
                   /\ rs.out[k].relpath = join(rem)

\* C7, amended: a callable reached with segments remaining is the terminal
\* callable, with the remaining segments joined by "/" as relpath, when it is
\* not a handler node or when its step_down returns None for the next
\* segment; a callable handler node whose step_down returns an object for
\* the next segment is descended through instead.
C7_CallableIsTerminalUnlessDescended ==
    \A k \in 1..2 : ResolveDone(k) =>
        \A i \in 1..Len(rs.out[k].visited) :
            LET h == rs.out[k].visited[i]
                rem == Remaining(i, k)
            IN (callable(rs.tree, h) /\ rem # <<>>) =>
                   IF ~isWPHandler(rs.tree, h) \/ step_down(rs.tree, h, rem[1]) = SteppedNone
                   THEN /\ rs.out[k].kind = "method"
                        /\ rs.out[k].method = h
                        /\ rs.out[k].relpath = join(rem)
                   ELSE IF step_down(rs.tree, h, rem[1]).kind = "attr"
                   THEN /\ Len(rs.out[k].visited) > i
                        /\ rs.out[k].visited[i + 1] = step_down(rs.tree, h, rem[1]).node
                   ELSE rs.out[k].kind = "NameError"

\* /a/b/c where a exposes b, b is callable and exposes no c: callable b, relpath c
C7_Witness ==
    /\ ResolveDone(1)
    /\ rs.path[1] = <<"/", "a", "/", "b", "/", "c">>
    /\ rs.tree.attrs["root"]["a"] = "a" /\ rs.tree.attrs["a"]["b"] = "b"
    /\ callable(rs.tree, "b")
    /\ rs.out[1].kind = "method" /\ rs.out[1].method = "b"
    /\ rs.out[1].relpath = <<"c">>

\* C8: a path whose segments are all consumed and which ends at a handler
\* node that is not callable yields a redirect, never a method, to the path
\* of the segments followed by one "/" and the default method name.
C8_RedirectToDefault ==
    \A k \in 1..2 : ResolveDone(k) =>
        LET o == rs.out[k]
            pd == path_down_of(rs.path[k])
            last == o.visited[Len(o.visited)]
        IN (Len(o.visited) = Len(pd) + 1 /\ isWPHandler(rs.tree, last)
                /\ ~callable(rs.tree, last)) =>
               /\ o.kind = "redirect"
               /\ o.method = None
               /\ o.location = <<"/">> \o join(pd)
                                  \o (IF pd = <<>> THEN <<>> ELSE <<"/">>)
                                  \o <<DefaultMethod>>

\* /a/ where a is a handler node that is not callable: redirect to /a/index
C8_Witness ==
    /\ ResolveDone(2)
    /\ rs.path[2] = <<"/", "a", "/">>
    /\ rs.tree.kind["a"] = "WPHandler"
    /\ rs.out[2].kind = "redirect"
    /\ rs.out[2].location = <<"/", "a", "/", "index">>

(***************************************************************************)
(* One call of makeResponse                                                *)
(***************************************************************************)
MakeInit ==
    /\ gate = GateIdle
    /\ rs = RsIdle
    /\ app = AppIdle /\ th = ThIdle
    /\ td = TdIdle /\ jg = JgIdle /\ pq = PqIdle /\ stp = StpIdle /\ lk = LkIdle
    /\ \E v \in Values : mr = [MrIdle EXCEPT !.pc = "call", !.resp = v]

MakeResponse ==
    /\ mr.pc = "call"
    /\ mr' = [mr EXCEPT !.pc = "done", !.out = makeResponse(mr.resp)]
    /\ UNCHANGED <<gate, rs, app, th, td, jg, pq, stp, lk>>

MakeNext == MakeResponse

MakeSpec == MakeInit /\ [][MakeNext]_vars

PartsOfType(ps, T) == {i \in 1..Len(ps) : ps[i].t \in T}
BodyTypes == {"dict", "bytes", "str", "list", "iter"}

\* the place of the body in a tuple: the first part that is not an integer
BodyAt(ps) == CHOOSE i \in 1..Len(ps) :
                  ps[i].t # "int" /\ \A j \in 1..(i - 1) : ps[j].t = "int"

\* a tuple of one body-like part, then at most one header mapping and at
\* most one content type string, with at most one integer anywhere
C4_Shape(v) ==
    /\ v.tuple
    /\ PartsOfType(v.parts, {"int"}) # 1..Len(v.parts)
    /\ LET ps == v.parts
           b == BodyAt(ps)
           rest == {i \in 1..Len(ps) : i # b}
       IN /\ ps[b].t \in BodyTypes
          /\ ps[b].t \in {"list", "iter"} => ~to_bytes_raises(ps[b].l)
          /\ \A i \in rest : ps[i].t \in {"int", "dict", "str"}
          /\ Cardinality(PartsOfType(ps, {"int"})) <= 1
          /\ Cardinality(rest \cap PartsOfType(ps, {"dict"})) <= 1
          /\ Cardinality(rest \cap PartsOfType(ps, {"str"})) <= 1

\* C4: for such a tuple the response has status = the integer if present
\* else the default, headers = the mapping if present else none, and
\* content type = the string if present, else the one the header mapping
\* carries, else the default of the body format.
C4_TupleFields ==
    (mr.pc = "done" /\ C4_Shape(mr.resp)) =>
        LET ps == mr.resp.parts
            b == BodyAt(ps)
            rest == {i \in 1..Len(ps) : i # b}
            ints == PartsOfType(ps, {"int"})
            maps == rest \cap PartsOfType(ps, {"dict"})
            strs == rest \cap PartsOfType(ps, {"str"})
            format_default == IF ps[b].t = "dict" THEN JsonContentType
                              ELSE DefaultContentType
        IN /\ mr.out.kind = "Response"
           /\ mr.out.status = IF ints = {} THEN DefaultStatus
                              ELSE ps[CHOOSE i \in ints : TRUE].i
           /\ mr.out.headers.given = (maps # {})
           /\ mr.out.content_type =
                  IF strs # {} THEN ps[CHOOSE i \in strs : TRUE].s
                  ELSE IF maps # {} /\ ps[CHOOSE i \in maps : TRUE].s # None
                  THEN ps[CHOOSE i \in maps : TRUE].s
                  ELSE format_default

\* a value of one of the shapes makeResponse accepts: a response, an
\* integer, a mapping, bytes, text, a list of chunks, a lazy sequence, or a
\* tuple of integers, mappings, strings and one body that comes first among
\* the parts that are not integers
C5_Accepted(v) ==
    IF ~v.tuple
    THEN \/ v.parts[1].t \in {"Response", "int", "dict", "bytes", "str", "iter"}
         \/ v.parts[1].t = "list" /\ ~to_bytes_raises(v.parts[1].l)
    ELSE \/ PartsOfType(v.parts, {"int"}) = 1..Len(v.parts)
         \/ LET ps == v.parts
                b == BodyAt(ps)
            IN /\ \/ ps[b].t \in {"dict", "bytes", "str", "iter"}
                  \/ ps[b].t = "list" /\ ~to_bytes_raises(ps[b].l)
               /\ \A i \in 1..Len(ps) : i # b => ps[i].t \in {"int", "dict", "str"}

\* C5: makeResponse returns a response for every accepted shape and raises
\* the invalid-response error (ValueError) for every other value.
C5_TotalOrValueError ==
    mr.pc = "done" =>
        IF C5_Accepted(mr.resp) THEN mr.out.kind = "Response"
        ELSE mr.out.kind = "ValueError"

(***************************************************************************)
(* A call of a web method through its permission gate                      *)
(***************************************************************************)
GateInit ==
    /\ rs = RsIdle
    /\ mr = MrIdle
    /\ app = AppIdle /\ th = ThIdle
    /\ td = TdIdle /\ jg = JgIdle /\ pq = PqIdle /\ stp = StpIdle /\ lk = LkIdle
    /\ \E p \in Permissions, l \in RoleLookups :
           gate = [GateIdle EXCEPT !.pc = "call", !.permissions = p, !.lookup = l]

\* one call of a web method through its gate
Decorated ==
    /\ gate.pc = "call"
    /\ LET r == decorated(gate.permissions, gate.lookup)
       IN gate' = [gate EXCEPT !.pc = "done", !.outcome = r.outcome,
                               !.status = r.status, !.lookups = r.lookups,
                               !.invoked = r.invoked]
    /\ UNCHANGED <<rs, mr, app, th, td, jg, pq, stp, lk>>

GateNext == Decorated

GateSpec == GateInit /\ [][GateNext]_vars

\* C1: a web method with a required role set is invoked if and only if at
\* least one role returned by the role lookup is in the required set;
\* otherwise the outcome is Forbidden (403) and the method is not executed.
C1_GateFollowsRoles ==
    (gate.pc = "done" /\ gate.permissions.given /\ gate.lookup.kind # "raise") =>
        LET has == \E i \in 1..Len(gate.lookup.val) :
                       gate.lookup.val[i] \in gate.permissions.roles
        IN /\ has <=> (gate.outcome = "invoked" /\ gate.invoked = 1)
           /\ ~has => (gate.outcome = "HTTPForbidden" /\ gate.status = 403
                       /\ gate.invoked = 0)

\* required {admin}, roles [user, admin]: the second role admits the call
C1_Witness ==
    /\ gate.pc = "done"
    /\ gate.permissions = [given |-> TRUE, roles |-> {"admin"}]
    /\ gate.lookup = [kind |-> "list", val |-> <<"user", "admin">>]
    /\ gate.outcome = "invoked"

\* C2: when the role lookup raises for a method with a declared requirement
\* the request is denied with Forbidden and the method is not executed; with
\* no declared requirement no lookup happens and the method is executed.
C2_FailClosed ==
    gate.pc = "done" =>
        /\ (gate.permissions.given /\ gate.lookup.kind = "raise") =>
               (gate.outcome = "HTTPForbidden" /\ gate.status = 403 /\ gate.invoked = 0)
        /\ ~gate.permissions.given =>
               (gate.lookups = 0 /\ gate.outcome = "invoked" /\ gate.invoked = 1)

\* a declared requirement that the raising lookup's caller can not meet
C2_Witness ==
    /\ gate.pc = "done"
    /\ gate.permissions = [given |-> TRUE, roles |-> {"admin", "user"}]
    /\ gate.lookup.kind = "raise"
    /\ gate.outcome = "HTTPForbidden"

(***************************************************************************)
(* Threads that set and read the template globals of one application       *)
(***************************************************************************)
\* after initJinjaEnvironment(globals = g): JGlobals holds g's entries;
\* applied is the set of values JGlobals was given as a whole
JinjaInit ==
    /\ gate = GateIdle /\ rs = RsIdle /\ mr = MrIdle
    /\ app = AppIdle /\ th = ThIdle
    /\ td = TdIdle /\ pq = PqIdle /\ stp = StpIdle /\ lk = LkIdle
    /\ \E g \in GlobalsDicts :
           jg = [JgIdle EXCEPT !.JGlobals = g, !.applied = {g},
                               !.th = [t \in 1..NumThreads |-> JgThread]]

JgOthers == <<gate, rs, mr, app, th, td, pq, stp, lk>>

\* app_synchronized: with self._app_lock(), entered for setJinjaGlobals(globals)
SetJinjaGlobalsEnter(t) ==
    /\ jg.th[t].pc = "idle"
    /\ jg.lock_owner = 0
    /\ jg.calls < MaxMutations
    /\ \E g \in GlobalsDicts :
           jg' = [jg EXCEPT !.lock_owner = t, !.calls = @ + 1,
                            !.applied = @ \cup {g},
                            !.th[t].pc = "clear", !.th[t].globals = g]
    /\ UNCHANGED JgOthers

\* self.JGlobals = {}
SetJinjaGlobalsClear(t) ==
    /\ jg.th[t].pc = "clear"
    /\ jg' = [jg EXCEPT !.JGlobals = EmptyDict, !.th[t].pc = "update"]
    /\ UNCHANGED JgOthers

\* self.JGlobals.update(globals)
SetJinjaGlobalsUpdate(t) ==
    /\ jg.th[t].pc = "update"
    /\ jg' = [jg EXCEPT !.JGlobals = update(@, jg.th[t].globals), !.th[t].pc = "exit"]
    /\ UNCHANGED JgOthers

\* the with block is left: the lock is released
SetJinjaGlobalsExit(t) ==
    /\ jg.th[t].pc = "exit"
    /\ jg' = [jg EXCEPT !.lock_owner = 0, !.th[t].pc = "idle",
                        !.th[t].globals = EmptyDict]
    /\ UNCHANGED JgOthers

\* WPApp.add_globals(d) with an empty d and no jinja_globals override:
\* params = {}; params.update(self.JGlobals); the lock is not taken
AddGlobals(t) ==
    /\ jg.th[t].pc = "idle"
    /\ jg' = [jg EXCEPT !.th[t].params = update(EmptyDict, jg.JGlobals),
                        !.th[t].read = TRUE]
    /\ UNCHANGED JgOthers

JinjaNext ==
    \E t \in 1..NumThreads :
        \/ SetJinjaGlobalsEnter(t)
        \/ SetJinjaGlobalsClear(t)
        \/ SetJinjaGlobalsUpdate(t)
        \/ SetJinjaGlobalsExit(t)
        \/ AddGlobals(t)

JinjaSpec == JinjaInit /\ [][JinjaNext]_vars

\* C12: a thread that reads the template globals while another thread sets
\* them under the lock sees the complete old value or the complete new
\* value: what add_globals read is one of the values JGlobals was given.
C12_NoPartialMutation ==
    \A t \in 1..NumThreads : jg.th[t].read => jg.th[t].params \in jg.applied

(***************************************************************************)
(* One call of parseQuery                                                  *)
(***************************************************************************)
QueryInit ==
    /\ gate = GateIdle /\ rs = RsIdle /\ mr = MrIdle
    /\ app = AppIdle /\ th = ThIdle
    /\ td = TdIdle /\ jg = JgIdle /\ stp = StpIdle /\ lk = LkIdle
    /\ \E q \in Queries : pq = [PqIdle EXCEPT !.pc = "call", !.query = q]

ParseQuery ==
    /\ pq.pc = "call"
    /\ pq' = [pq EXCEPT !.pc = "done", !.out = parseQuery(pq.query)]
    /\ UNCHANGED <<gate, rs, mr, app, th, td, jg, stp, lk>>

QueryNext == ParseQuery

QuerySpec == QueryInit /\ [][QueryNext]_vars

\* the items of a query: item j lies between the (j-1)-th and the j-th "&"
Amps(q) == {i \in 1..Len(q) : q[i] = "&"}
ItemStart(q, j) ==
    IF j = 1 THEN 1
    ELSE 1 + CHOOSE i \in Amps(q) : Cardinality({x \in Amps(q) : x < i}) = j - 2
ItemEnd(q, j) ==
    IF j = Cardinality(Amps(q)) + 1 THEN Len(q)
    ELSE (CHOOSE i \in Amps(q) : Cardinality({x \in Amps(q) : x < i}) = j - 1) - 1
Item(q, j) == SubSeq(q, ItemStart(q, j), ItemEnd(q, j))
\* the key of an item: what stands before its first "="; its value: what
\* stands after it, None without a "="
Eqs(w) == {i \in 1..Len(w) : w[i] = "="}
FirstEq(w) == CHOOSE i \in Eqs(w) : \A x \in Eqs(w) : i <= x
KeyOfItem(w) == IF Eqs(w) = {} THEN w ELSE SubSeq(w, 1, FirstEq(w) - 1)
ValueOfItem(w) ==
    IF Eqs(w) = {} THEN NoneValue ELSE StrValue(SubSeq(w, FirstEq(w) + 1, Len(w)))
\* the items of q that carry key k, in the order they stand in q
ItemsWithKey(q, k) == {j \in 1..(Cardinality(Amps(q)) + 1) : KeyOfItem(Item(q, j)) = k}
NthOf(S, n) == CHOOSE j \in S : Cardinality({x \in S : x < j}) = n - 1

\* C14: the mapping has exactly the keys of the items whose key is not
\* empty; a key that occurs once has the value of its item (None when the
\* item has no "="), a key that occurs several times has the list of the
\* values of its items in the order of the query string.
C14_ParseQuery ==
    pq.pc = "done" =>
        LET q == pq.query
            keys == {KeyOfItem(Item(q, j)) : j \in 1..(Cardinality(Amps(q)) + 1)} \ {<<>>}
        IN /\ {pq.out[i].k : i \in 1..Len(pq.out)} = keys
           /\ \A i, j \in 1..Len(pq.out) : pq.out[i].k = pq.out[j].k => i = j
           /\ \A i \in 1..Len(pq.out) :
                  LET its == ItemsWithKey(q, pq.out[i].k)
                  IN /\ pq.out[i].islist = (Cardinality(its) > 1)
                     /\ Len(pq.out[i].vals) = Cardinality(its)
                     /\ \A n \in 1..Cardinality(its) :
                            pq.out[i].vals[n] = ValueOfItem(Item(q, NthOf(its, n)))

\* a=1&a: the key a has the list ["1", None]
C14_Witness ==
    /\ pq.pc = "done"
    /\ pq.query = <<"a", "=", "1", "&", "a">>
    /\ pq.out = <<[k |-> <<"a">>, islist |-> TRUE,
                   vals |-> <<StrValue(<<"1">>), NoneValue>>]>>

(***************************************************************************)
(* The teardown of one handler tree at the end of wsgi_call                *)
(***************************************************************************)
TeardownInit ==
    /\ gate = GateIdle /\ rs = RsIdle /\ mr = MrIdle
    /\ app = AppIdle /\ th = ThIdle
    /\ jg = JgIdle /\ pq = PqIdle /\ stp = StpIdle /\ lk = LkIdle
    /\ \E d \in Dicts, r \in TdNodes \cup {None} :
           td = [TdIdle EXCEPT !.pc = "destroy", !.dict = d, !.raises = r]

TdOthers == <<gate, rs, mr, app, th, jg, pq, stp, lk>>

Top == td.stack[Len(td.stack)]
\* the attribute value the loop of the top frame is at
TopAttr == td.dict[Top.node][AttrOrder[Top.k]]
\* the stack with the top frame moved on to the next attribute
Advanced == [td.stack EXCEPT ![Len(td.stack)].k = @ + 1, ![Len(td.stack)].at = "destroy"]

\* wsgi_call: root_handler.destroy(); a hook that raises leaves wsgi_call
WsgiDestroyHook ==
    /\ td.pc = "destroy"
    /\ td' = [td EXCEPT !.hooks["root"] = @ + 1,
                        !.pc = IF td.raises = "root" THEN "raised" ELSE "_destroy"]
    /\ UNCHANGED TdOthers

\* wsgi_call: root_handler._destroy(), up to the loop
WsgiDestroyRoot ==
    /\ td.pc = "_destroy"
    /\ IF guard(td.BeingDestroyed, "root")
       THEN td' = [td EXCEPT !.App_none["root"] = TRUE, !.pc = "done"]
       ELSE td' = [td EXCEPT !.App_none["root"] = TRUE, !.BeingDestroyed["root"] = TRUE,
                             !.bodies["root"] = @ + 1, !.stack = <<Frame("root")>>,
                             !.pc = "loop"]
    /\ UNCHANGED TdOthers

\* _destroy, the loop: an attribute that holds no handler node is passed
\* over; else try: o.destroy() except: pass
DestroyHook ==
    /\ td.pc = "loop"
    /\ Top.k <= Len(AttrOrder) /\ Top.at = "destroy"
    /\ IF TopAttr = None
       THEN td' = [td EXCEPT !.stack = Advanced]
       ELSE td' = [td EXCEPT !.hooks[TopAttr] = @ + 1,
                             !.stack[Len(td.stack)].at = "_destroy"]
    /\ UNCHANGED TdOthers

\* _destroy, the loop: o._destroy(), which returns at once for a node that
\* is being destroyed and else starts the loop of o
DestroyRecurse ==
    /\ td.pc = "loop"
    /\ Top.k <= Len(AttrOrder) /\ Top.at = "_destroy"
    /\ IF guard(td.BeingDestroyed, TopAttr)
       THEN td' = [td EXCEPT !.App_none[TopAttr] = TRUE, !.stack = Advanced]
       ELSE /\ Len(td.stack) < MaxDepth
            /\ td' = [td EXCEPT !.App_none[TopAttr] = TRUE,
                                !.BeingDestroyed[TopAttr] = TRUE,
                                !.bodies[TopAttr] = @ + 1,
                                !.stack = Append(Advanced, Frame(TopAttr))]
    /\ UNCHANGED TdOthers

\* _destroy: the loop is over, self.BeingDestroyed = False, return
DestroyReturn ==
    /\ td.pc = "loop"
    /\ Top.k > Len(AttrOrder)
    /\ td' = [td EXCEPT !.BeingDestroyed[Top.node] = FALSE,
                        !.stack = SubSeq(@, 1, Len(@) - 1),
                        !.pc = IF Len(td.stack) = 1 THEN "done" ELSE "loop"]
    /\ UNCHANGED TdOthers

TeardownNext ==
    \/ WsgiDestroyHook
    \/ WsgiDestroyRoot
    \/ DestroyHook
    \/ DestroyRecurse
    \/ DestroyReturn

TeardownSpec == TeardownInit /\ [][TeardownNext]_vars

\* the scheduler runs a thread that can take a step
TeardownLiveSpec == TeardownSpec /\ WF_vars(TeardownNext)

\* the nodes reachable from the root through the attributes
Children(S) == {td.dict[n][a] : n \in S, a \in AttrNames} \ {None}
Reachable == LET r1 == {"root"} \cup Children({"root"})
                 r2 == r1 \cup Children(r1)
             IN r2 \cup Children(r2)

TeardownOver == td.pc \in {"done", "raised"}

\* C15: in one teardown no reachable node has its destroy hook or the body
\* of its _destroy executed more than once, and at the end every reachable
\* node had each executed exactly once.
C15_ExactlyOnce ==
    /\ \A n \in Reachable : td.hooks[n] <= 1 /\ td.bodies[n] <= 1
    /\ (td.pc = "done" /\ td.raises = None) =>
           \A n \in Reachable : td.hooks[n] = 1 /\ td.bodies[n] = 1

\* some node reaches itself through the attributes
OnCycle(n) ==
    LET c1 == Children({n})
        c2 == c1 \cup Children(c1)
    IN n \in c2 \cup Children(c2)

\* the recursion never holds two frames of one node
NoReentry ==
    \A i, j \in 1..Len(td.stack) : td.stack[i].node = td.stack[j].node => i = j

\* C16: _destroy on a node whose attributes lead back to itself terminates,
\* and the body of _destroy is never entered for a node that is marked as
\* being destroyed.
C16_Terminates ==
    /\ []((\E n \in Reachable : OnCycle(n)) => NoReentry)
    /\ []((\E n \in Reachable : OnCycle(n)) => <>TeardownOver)

\* root.p is x and x.p is root: the teardown is over, x called the hook of
\* the root once more and the guard kept _destroy from running on it again
C16_Witness ==
    /\ td.pc = "done"
    /\ td.dict["root"]["p"] = "x" /\ td.dict["x"]["p"] = "root"
    /\ td.hooks["root"] = 2 /\ td.bodies["root"] = 1 /\ td.bodies["x"] = 1

\* C17: when the destroy hook of one node raises, the teardown still goes
\* over every other reachable node: at the end each of them had its
\* _destroy executed.
C17_FaultSwallowed ==
    (TeardownOver /\ td.raises # None) =>
        \A n \in Reachable \ {td.raises} : td.bodies[n] >= 1 /\ td.App_none[n]

(***************************************************************************)
(* One call of step_down on a handler node of a tree                       *)
(***************************************************************************)
StepInit ==
    /\ gate = GateIdle /\ rs = RsIdle /\ mr = MrIdle
    /\ app = AppIdle /\ th = ThIdle
    /\ td = TdIdle /\ jg = JgIdle /\ pq = PqIdle /\ lk = LkIdle
    /\ \E t \in Trees, n \in Names :
       \E h \in {x \in {"root", "a", "b"} : isWPHandler(t, x)} :
           stp = [StpIdle EXCEPT !.pc = "call", !.tree = t, !.handler = h, !.name = <<n>>]

StepDown ==
    /\ stp.pc = "call"
    /\ stp' = [stp EXCEPT !.pc = "done", !.out = step_down(stp.tree, stp.handler, stp.name)]
    /\ UNCHANGED <<gate, rs, mr, app, th, td, jg, pq, lk>>

StepNext == StepDown

StepSpec == StepInit /\ [][StepNext]_vars

\* names that begin with an underscore
NonPublic == {"_destroy"}

\* C20: on a handler node that is not strict a step down yields an object
\* only for a registered name or for a public attribute that is a callable
\* or a handler node; a segment that names a member that is not public or a
\* method of the framework does not yield a callable.
C20_OnlyPublicOrRegistered ==
    (stp.pc = "done" /\ ~stp.tree.strict[stp.handler]) =>
        LET t == stp.tree
            h == stp.handler
            n == NameOf(stp.name)
        IN /\ stp.out.kind = "attr" =>
                  \/ Registered(t, h, stp.name)
                  \/ /\ n \notin NonPublic
                     /\ t.attrs[h][n] # None
                     /\ callable(t, t.attrs[h][n]) \/ isWPHandler(t, t.attrs[h][n])
           /\ n \in Members => ~(stp.out.kind = "attr" /\ callable(t, stp.out.node))

(***************************************************************************)
(* Threads that call synchronized methods of one application, also from    *)
(* inside a synchronized method, and that hold the application in a with   *)
(* statement (with app:)                                                   *)
(***************************************************************************)
LockInit ==
    /\ gate = GateIdle /\ rs = RsIdle /\ mr = MrIdle
    /\ app = AppIdle /\ th = ThIdle
    /\ td = TdIdle /\ jg = JgIdle /\ pq = PqIdle /\ stp = StpIdle
    /\ lk = [LkIdle EXCEPT !.th = [t \in 1..NumThreads |-> LkThread]]

LkOthers == <<gate, rs, mr, app, th, td, jg, pq, stp>>

\* where the thread is once it is inside the scopes of stack s: in the body
\* of a synchronized method, in the block of a with statement, or in neither
position(s) == IF s = <<>> THEN "idle"
               ELSE IF s[Len(s)].kind = "method" THEN "body" ELSE "block"

\* synchronized_method is called, from outside, from the body of a
\* synchronized method or from the block of a with statement
SyncCall(t) ==
    /\ lk.th[t].pc \in {"idle", "body", "block"}
    /\ lk.th[t].calls < MaxSyncCalls
    /\ Len(lk.th[t].stack) < MaxNesting
    /\ lk' = [lk EXCEPT !.th[t].pc = "acquire", !.th[t].before = hold(lk, t),
                        !.th[t].calls = @ + 1, !.th[t].last = LkThread.last]
    /\ UNCHANGED LkOthers

\* with self._app_lock(): the lock is acquired and the method body entered
SyncAcquire(t) ==
    /\ lk.th[t].pc = "acquire"
    /\ available(lk.owner, t)
    /\ lk' = [lk EXCEPT !.owner = t, !.count = @ + 1,
                        !.th[t].pc = "body", !.th[t].before = 0,
                        !.th[t].stack = Append(@, [kind |-> "method",
                                                   before |-> lk.th[t].before])]
    /\ UNCHANGED LkOthers

\* the end of a synchronized method: the with block is left, which releases
\* the lock, by return or by an exception (how)
SyncExit(t, how) ==
    LET s == lk.th[t].stack
        l == release(lk)
        rest == SubSeq(s, 1, Len(s) - 1)
    IN /\ lk.th[t].pc = "body"
       /\ lk' = [l EXCEPT !.th[t].stack = rest,
                          !.th[t].pc = position(rest),
                          !.th[t].last = [before |-> s[Len(s)].before,
                                          after |-> hold(l, t), how |-> how]]
       /\ UNCHANGED LkOthers

\* return method(self, *params, **args)
SyncReturn(t) == SyncExit(t, "returned")

\* method(self, *params, **args) raises
SyncRaise(t) == SyncExit(t, "raised")

\* WPApp.__enter__, at the head of with app: it acquires _AppLock, which
\* blocks while another thread owns it; the thread is then in the block and
\* in no synchronized method
AppEnter(t) ==
    /\ lk.th[t].pc \in {"idle", "body", "block"}
    /\ lk.th[t].calls < MaxSyncCalls
    /\ Len(lk.th[t].stack) < MaxNesting
    /\ available(lk.owner, t)
    /\ lk' = [lk EXCEPT !.owner = t, !.count = @ + 1,
                        !.th[t].pc = "block", !.th[t].calls = @ + 1,
                        !.th[t].stack = Append(@, [kind |-> "with",
                                                   before |-> hold(lk, t)])]
    /\ UNCHANGED LkOthers

\* WPApp.__exit__, when the block of with app: is left, by its end or by an
\* exception: it releases _AppLock once
AppExit(t) ==
    LET s == lk.th[t].stack
        l == release(lk)
        rest == SubSeq(s, 1, Len(s) - 1)
    IN /\ lk.th[t].pc = "block"
       /\ lk' = [l EXCEPT !.th[t].stack = rest, !.th[t].pc = position(rest)]
       /\ UNCHANGED LkOthers

LockStep(t) ==
    \/ SyncCall(t) \/ SyncAcquire(t) \/ SyncReturn(t) \/ SyncRaise(t)
    \/ AppEnter(t) \/ AppExit(t)

LockNext == \E t \in 1..NumThreads : LockStep(t)

\* every thread that can take a step gets to take one
LockSpec == LockInit /\ [][LockNext]_vars /\ \A t \in 1..NumThreads : WF_vars(LockStep(t))

\* a thread owns the lock once per scope it is in (the synchronized methods
\* and the with blocks), in the body of a synchronized method it is the
\* owner, a thread in no scope holds nothing, and a method that ended, by
\* return or by fault, left the hold count of its thread as it was before
\* the call
LockDiscipline ==
    /\ (lk.owner = 0) = (lk.count = 0)
    /\ \A t \in 1..NumThreads :
           /\ lk.th[t].pc = "body" => (lk.owner = t /\ lk.count = Len(lk.th[t].stack))
           /\ hold(lk, t) = Len(lk.th[t].stack)
           /\ lk.th[t].pc = "idle" => hold(lk, t) = 0
           /\ \A i \in 1..Len(lk.th[t].stack) : lk.th[t].stack[i].before = i - 1
           /\ lk.th[t].last.how # None => lk.th[t].last.after = lk.th[t].last.before

\* C22: a synchronized method holds the lock for its whole duration and
\* gives it back on return and on fault, so that the hold count of the
\* thread is what it was before the call, also when the thread held the lock
\* before the call (in a synchronized method or in a with block); a
\* synchronized method called by a thread that holds the lock gets it, and
\* every call comes to its end.
C22_ScopedReentrantLock ==
    /\ []LockDiscipline
    /\ \A t \in 1..NumThreads :
           /\ []((lk.th[t].pc = "acquire" /\ lk.th[t].before > 0) => <>(lk.th[t].pc = "body"))
           /\ [](lk.th[t].pc # "idle" => <>(lk.th[t].pc = "idle"))

\* a synchronized method called inside another one ended by a fault and the
\* thread holds the lock once, as before that call
C22_Witness ==
    /\ lk.th[1].pc = "body"
    /\ lk.th[1].last = [before |-> 1, after |-> 1, how |-> "raised"]
    /\ lk.owner = 1 /\ lk.count = 1

====
